---- MODULE Spec2Model ----
(***************************************************************************)
(* Model of generate_migration_txs.py: main() walks the token-ID list,     *)
(* calls the external `cast calldata` tool once per element, accumulates   *)
(* the successful results in a batch and writes one JSON file per batch.   *)
(*                                                                         *)
(* Python strings are sequences of Unicode code points, so that str(),     *)
(* strip() and "_".join() are computed rather than assumed.                *)
(***************************************************************************)
EXTENDS Integers, Sequences, FiniteSets

\* ---------------------------------------------------------------- bounds
\* Longest input list explored.
MaxLen == 11

\* The tool may print nothing for the first MaxQuiet tokens of the script's
\* list.
MaxQuiet == 2

\* ------------------------------------------------------ program constants
\* The module-level token_ids list of the script.
SourceTokenIds ==
    << 5959, 5961, 6335, 6524, 4593, 5603, 5597, 4613, 5596, 5418, 6336,
       5451, 6088, 4997, 6301, 4345, 6769, 502, 6179, 6346, 6351, 6511,
       6378, 5447, 6397, 6452, 6136, 6734, 6430, 3601, 5595, 204, 6106,
       6554, 6459, 6427, 6341, 5618, 6396, 195, 6107, 5186, 327, 3802,
       6457, 4554, 6530, 5510, 6163, 6304, 6699, 3884, 6617, 6513, 4141,
       6391, 3993, 108, 6613, 420, 3818, 5604, 6135, 3178, 3111, 4390,
       4240, 6517, 4995, 100, 16201, 93, 4496, 6093, 3618, 6515, 3383 >>

pharaoh_loan == "0xf6A044c3b2a3373eF2909E2474f3229f23279B5F"
xpharaoh_loan == "0x6Bf2Fe80D245b06f6900848ec52544FBdE6c8d2C"

\* The batch size tested by `len(batch_token_ids) == 5`.
BatchSize == 5

\* Python's None, distinct from every string (code points are not negative).
None == << -1 >>

\* An exception leaving generate_calldata: subprocess.run raised something
\* other than CalledProcessError (the tool cannot be started, its output
\* cannot be decoded), which the function does not catch, or the print()
\* of the except block raised.
Raised == << -2 >>

\* ------------------------------------------------------------ conversions
\* "0" .. "9"
DigitChars == << 48, 49, 50, 51, 52, 53, 54, 55, 56, 57 >>

RECURSIVE str(_)
\* str(token_id) for a non-negative int: its decimal digits.
str(n) == IF n < 10 THEN << DigitChars[n + 1] >>
          ELSE str(n \div 10) \o << DigitChars[(n % 10) + 1] >>

\* The 29 code points str.strip() removes: \t \n \v \f \r, U+001C..U+001F,
\* space, U+0085, U+00A0, U+1680, U+2000..U+200A, U+2028, U+2029, U+202F,
\* U+205F, U+3000.
Whitespace ==
    { 9, 10, 11, 12, 13, 28, 29, 30, 31, 32, 133, 160, 5760 }
        \cup (8192..8202) \cup { 8232, 8233, 8239, 8287, 12288 }

RECURSIVE lstrip(_)
lstrip(s) == IF s # << >> /\ Head(s) \in Whitespace THEN lstrip(Tail(s)) ELSE s

RECURSIVE rstrip(_)
rstrip(s) == IF s # << >> /\ s[Len(s)] \in Whitespace
             THEN rstrip(SubSeq(s, 1, Len(s) - 1)) ELSE s

\* result.stdout.strip()
strip(s) == rstrip(lstrip(s))

RECURSIVE translate_newlines(_)
\* What text=True does to the tool's output before it becomes result.stdout:
\* "\r\n" and a lone "\r" are read as "\n".
translate_newlines(s) ==
    IF s = << >> THEN << >>
    ELSE IF s[1] = 13
         THEN << 10 >> \o translate_newlines(
                  IF Len(s) >= 2 /\ s[2] = 10 THEN SubSeq(s, 3, Len(s)) ELSE Tail(s))
         ELSE << s[1] >> \o translate_newlines(Tail(s))

RECURSIVE join(_, _)
\* sep.join(parts) for a list of strings.
join(sep, parts) ==
    IF parts = << >> THEN << >>
    ELSE IF Len(parts) = 1 THEN parts[1]
    ELSE parts[1] \o sep \o join(sep, Tail(parts))

\* map(str, batch_token_ids)
MapStr(ids) == [k \in 1..Len(ids) |-> str(ids[k])]

\* "_"
Underscore == << 95 >>

\* "migrate_tokens_"
NamePrefix == << 109, 105, 103, 114, 97, 116, 101, 95,
                 116, 111, 107, 101, 110, 115, 95 >>
\* ".json"
NameSuffix == << 46, 106, 115, 111, 110 >>

\* Variant of Filename: the file is named after the number of its tokens.
FilenameBySize(ids) == NamePrefix \o str(Len(ids)) \o NameSuffix

\* f"migrate_tokens_{token_list}.json" with token_list = "_".join(map(str, ids))
Filename(ids) == NamePrefix \o join(Underscore, MapStr(ids)) \o NameSuffix

\* ------------------------------------------------------- the external tool
\* What one run of `cast calldata migrateNft(...) <token_id> ...` may
\* print: the tool is external, so its output is an input of the model.
\* "0x" followed by the token's digits stands for the hex-encoded call data;
\* the members differ in the whitespace and line ends around it.  For the
\* first MaxQuiet tokens the tool may also print nothing but whitespace, and
\* for one token it may print the payload on two lines, with "\r" or "\r\n"
\* between them.
QuietTokens == { SourceTokenIds[k] : k \in 1..MaxQuiet }

TwoLineToken == SourceTokenIds[2]

ToolStdouts(token_id) ==
    { << 32, 48, 120 >> \o str(token_id) \o << 10 >>,
      << 11, 48, 120 >> \o str(token_id) \o << 13, 10, 12288 >> }
    \cup (IF token_id \in QuietTokens
          THEN { << >>, << 10 >>, << 11, 160, 8232 >> }
          ELSE { })
    \cup (IF token_id = TwoLineToken
          THEN { << 48, 120, 13 >> \o str(token_id) \o << 13 >>,
                 << 48, 120, 13, 10 >> \o str(token_id) \o << 13, 10 >> }
          ELSE { })

ReturnCodes == { 0, 1 }

\* How subprocess.run ends: "completed" when the tool ran and its output was
\* read (with check=True a non-zero status then raises CalledProcessError),
\* "raised" when it raises another exception (FileNotFoundError,
\* UnicodeDecodeError, ...).
RunOutcomes == { "completed", "raised" }

\* generate_calldata: result.stdout (the output printed, newlines translated)
\* stripped; None when CalledProcessError is caught (non-zero exit status)
\* and the print() of line 27 succeeds (print_ok); Raised when that print()
\* raises or subprocess.run raises anything else.  `stdout` is the output as
\* printed.
generate_calldata(outcome, returncode, stdout, print_ok) ==
    IF outcome = "raised" THEN Raised
    ELSE IF returncode = 0 THEN strip(translate_newlines(stdout))
    ELSE IF print_ok THEN None
    ELSE Raised

\* The record of one invocation: the token, the exit status the script saw
\* (-1 when subprocess.run raised before reporting one) and what
\* generate_calldata gave back.
Invocation(token_id, outcome, returncode, c) ==
    [ token_id |-> token_id,
      returncode |-> IF outcome = "raised" THEN -1 ELSE returncode,
      calldata |-> c ]

\* Python truthiness of `calldata` in `if not calldata`.
Truthy(c) == c # None /\ c # << >>

\* Variant of create_transaction_json: the destination is the other loan
\* contract.
create_transaction_json_other_to(ids, calldatas) ==
    [ chainId |-> "43114",
      transactions |-> [ k \in 1..Len(ids) |->
                           [ to |-> xpharaoh_loan,
                             value |-> "0",
                             data |-> calldatas[k] ] ] ]

\* create_transaction_json(token_ids, calldatas)
create_transaction_json(ids, calldatas) ==
    [ chainId |-> "43114",
      transactions |-> [ k \in 1..Len(ids) |->
                           [ to |-> pharaoh_loan,
                             value |-> "0",
                             data |-> calldatas[k] ] ] ]

\* ------------------------------------------------------------------ state
VARIABLES
    token_ids,        \* the input list
    pc,               \* "start" (line 46), "loop" (line 53), "batch"
                      \* (line 66), "done" (main() returned), "aborted" (an
                      \* uncaught exception ended main())
    i,                \* enumerate index: elements consumed so far at "loop",
                      \* the current index at "batch"
    calldata,         \* local of main(): last value returned by generate_calldata
    file_count,
    batch_token_ids,
    batch_calldatas,
    files,            \* the files opened for writing, in order: [name,
                      \* content (the document given to json.dump), complete
                      \* (json.dump and close succeeded)]
    results           \* the tool invocations made, in order:
                      \* [token_id, returncode, calldata]

vars == << token_ids, pc, i, calldata, file_count,
           batch_token_ids, batch_calldatas, files, results >>

\* ----------------------------------------------------------------- inputs
\* The first n entries of the script's list: pairwise distinct IDs.
Prefix(n) == SubSeq(SourceTokenIds, 1, n)

\* n times the same ID (the last of the script's list).
RepeatedToken == SourceTokenIds[Len(SourceTokenIds)]

Repeated(n) == [k \in 1..n |-> RepeatedToken]

Inputs == { Prefix(n) : n \in 0..MaxLen } \cup { Repeated(n) : n \in 0..MaxLen }

\* main() is entered; its locals, not yet assigned, are shown with the
\* values lines 49-51 give them.
Init ==
    /\ token_ids \in Inputs
    /\ pc = "start"
    /\ i = 0
    /\ calldata = None
    /\ file_count = 0
    /\ batch_token_ids = << >>
    /\ batch_calldatas = << >>
    /\ files = << >>
    /\ results = << >>

\* ---------------------------------------------------------------- actions
\* Lines 46-51: the two opening lines are printed and the locals are set.
Begin ==
    /\ pc = "start"
    /\ file_count' = 0
    /\ batch_token_ids' = << >>
    /\ batch_calldatas' = << >>
    /\ pc' = "loop"
    /\ UNCHANGED << token_ids, i, calldata, files, results >>

\* Lines 46-47 when one of the two print() calls raises.
BeginFails ==
    /\ pc = "start"
    /\ pc' = "aborted"
    /\ UNCHANGED << token_ids, i, calldata, file_count,
                    batch_token_ids, batch_calldatas, files, results >>

\* Variant of Skip: the token ID joins the batch before the result is tested.
SkipKeepsToken ==
    /\ pc = "loop"
    /\ i < Len(token_ids)
    /\ \E rc \in ReturnCodes, out \in ToolStdouts(token_ids[i + 1]) :
         LET c == generate_calldata("completed", rc, out, TRUE) IN
         /\ ~Truthy(c)
         /\ calldata' = c
         /\ results' = Append(results,
                              Invocation(token_ids[i + 1], "completed", rc, c))
    /\ batch_token_ids' = Append(batch_token_ids, token_ids[i + 1])
    /\ i' = i + 1
    /\ pc' = "loop"
    /\ UNCHANGED << token_ids, file_count, batch_calldatas, files >>

\* Variant of Skip: the failed element is tried again.
SkipRetries ==
    /\ pc = "loop"
    /\ i < Len(token_ids)
    /\ Len(results) < 2 * Len(token_ids)
    /\ \E rc \in ReturnCodes, out \in ToolStdouts(token_ids[i + 1]) :
         LET c == generate_calldata("completed", rc, out, TRUE) IN
         /\ ~Truthy(c)
         /\ calldata' = c
         /\ results' = Append(results,
                              Invocation(token_ids[i + 1], "completed", rc, c))
    /\ pc' = "loop"
    /\ UNCHANGED << token_ids, i, file_count, batch_token_ids, batch_calldatas, files >>

\* Line 54 when its print() raises (the output stream is closed or broken):
\* main() ends before the tool is called for the element.
AnnounceFails ==
    /\ pc = "loop"
    /\ i < Len(token_ids)
    /\ pc' = "aborted"
    /\ UNCHANGED << token_ids, i, calldata, file_count,
                    batch_token_ids, batch_calldatas, files, results >>

\* Lines 54-57 when generate_calldata raises: subprocess.run raises an
\* exception that is not caught, or the print() of line 27 raises inside the
\* except block.  The exception leaves main() before `calldata` is assigned.
Abort ==
    /\ pc = "loop"
    /\ i < Len(token_ids)
    /\ \E outcome \in RunOutcomes, rc \in ReturnCodes,
          out \in ToolStdouts(token_ids[i + 1]), print_ok \in BOOLEAN :
         LET c == generate_calldata(outcome, rc, out, print_ok) IN
         /\ c = Raised
         /\ results' = Append(results,
                              Invocation(token_ids[i + 1], outcome, rc, c))
    /\ pc' = "aborted"
    /\ UNCHANGED << token_ids, i, calldata, file_count,
                    batch_token_ids, batch_calldatas, files >>

\* Lines 54-60: the tool fails or prints nothing; the element is skipped.
Skip ==
    /\ pc = "loop"
    /\ i < Len(token_ids)
    /\ \E rc \in ReturnCodes, out \in ToolStdouts(token_ids[i + 1]) :
         LET c == generate_calldata("completed", rc, out, TRUE) IN
         /\ ~Truthy(c)
         /\ calldata' = c
         /\ results' = Append(results,
                              Invocation(token_ids[i + 1], "completed", rc, c))
    /\ i' = i + 1
    /\ pc' = "loop"
    /\ UNCHANGED << token_ids, file_count, batch_token_ids, batch_calldatas, files >>

\* Lines 54-59 when the print() of line 59 raises: the tool failed or printed
\* nothing, `calldata` is assigned, and main() ends at the message.
SkipReportFails ==
    /\ pc = "loop"
    /\ i < Len(token_ids)
    /\ \E rc \in ReturnCodes, out \in ToolStdouts(token_ids[i + 1]) :
         LET c == generate_calldata("completed", rc, out, TRUE) IN
         /\ ~Truthy(c)
         /\ calldata' = c
         /\ results' = Append(results,
                              Invocation(token_ids[i + 1], "completed", rc, c))
    /\ pc' = "aborted"
    /\ UNCHANGED << token_ids, i, file_count, batch_token_ids, batch_calldatas, files >>

\* Lines 54-63: call data was generated; token and call data join the batch.
AppendToBatch ==
    /\ pc = "loop"
    /\ i < Len(token_ids)
    /\ \E rc \in ReturnCodes, out \in ToolStdouts(token_ids[i + 1]) :
         LET c == generate_calldata("completed", rc, out, TRUE) IN
         /\ Truthy(c)
         /\ calldata' = c
         /\ results' = Append(results,
                              Invocation(token_ids[i + 1], "completed", rc, c))
         /\ batch_token_ids' = Append(batch_token_ids, token_ids[i + 1])
         /\ batch_calldatas' = Append(batch_calldatas, c)
    /\ pc' = "batch"
    /\ UNCHANGED << token_ids, i, file_count, files >>

\* Variant of FlushCond: the batch boundary is taken from the index.
FlushCondByIndex == i % BatchSize = BatchSize - 1 \/ i = Len(token_ids) - 1

\* Line 66: `len(batch_token_ids) == 5 or i == len(token_ids) - 1`.
FlushCond == Len(batch_token_ids) = BatchSize \/ i = Len(token_ids) - 1

\* Variant of Flush: only the token-ID list is reset.
FlushKeepsCalldatas ==
    /\ pc = "batch"
    /\ Len(batch_token_ids) = BatchSize \/ i = Len(token_ids) - 1
    /\ file_count' = file_count + 1
    /\ files' = Append(files,
                       [ name |-> Filename(batch_token_ids),
                         content |-> create_transaction_json(batch_token_ids,
                                                             batch_calldatas),
                         complete |-> TRUE ])
    /\ batch_token_ids' = << >>
    /\ i' = i + 1
    /\ pc' = "loop"
    /\ UNCHANGED << token_ids, calldata, results, batch_calldatas >>

\* Lines 66-81: write the batch to its file, report it and reset the batch.
Flush ==
    /\ pc = "batch"
    /\ FlushCond
    /\ file_count' = file_count + 1
    /\ files' = Append(files,
                       [ name |-> Filename(batch_token_ids),
                         content |-> create_transaction_json(batch_token_ids,
                                                             batch_calldatas),
                         complete |-> TRUE ])
    /\ batch_token_ids' = << >>
    /\ batch_calldatas' = << >>
    /\ i' = i + 1
    /\ pc' = "loop"
    /\ UNCHANGED << token_ids, calldata, results >>

\* Lines 66-75 when open() or the write raises (OSError): file_count is
\* already incremented, the exception leaves main() with the batch kept.
\* When open() fails no file exists; when the write fails the file exists
\* without its full content.
FlushFails ==
    /\ pc = "batch"
    /\ FlushCond
    /\ file_count' = file_count + 1
    /\ \E opened \in BOOLEAN :
         files' = IF opened
                  THEN Append(files,
                              [ name |-> Filename(batch_token_ids),
                                content |-> create_transaction_json(batch_token_ids,
                                                                    batch_calldatas),
                                complete |-> FALSE ])
                  ELSE files
    /\ pc' = "aborted"
    /\ UNCHANGED << token_ids, i, calldata, batch_token_ids, batch_calldatas, results >>

\* Lines 66-77 when the print() of line 77 raises: the file is written and
\* closed, file_count is incremented, and main() ends before the batch is
\* reset.
FlushReportFails ==
    /\ pc = "batch"
    /\ FlushCond
    /\ file_count' = file_count + 1
    /\ files' = Append(files,
                       [ name |-> Filename(batch_token_ids),
                         content |-> create_transaction_json(batch_token_ids,
                                                             batch_calldatas),
                         complete |-> TRUE ])
    /\ pc' = "aborted"
    /\ UNCHANGED << token_ids, i, calldata, batch_token_ids, batch_calldatas, results >>

\* Line 66 false: next iteration with the batch kept.
KeepBatch ==
    /\ pc = "batch"
    /\ ~FlushCond
    /\ i' = i + 1
    /\ pc' = "loop"
    /\ UNCHANGED << token_ids, calldata, file_count,
                    batch_token_ids, batch_calldatas, files, results >>

\* Lines 83-84: the loop is exhausted, the summary is printed; main() returns.
Finish ==
    /\ pc = "loop"
    /\ i = Len(token_ids)
    /\ pc' = "done"
    /\ UNCHANGED << token_ids, i, calldata, file_count,
                    batch_token_ids, batch_calldatas, files, results >>

\* Lines 83-84 when one of the two print() calls raises.
FinishFails ==
    /\ pc = "loop"
    /\ i = Len(token_ids)
    /\ pc' = "aborted"
    /\ UNCHANGED << token_ids, i, calldata, file_count,
                    batch_token_ids, batch_calldatas, files, results >>

Next ==
    \/ Begin
    \/ BeginFails
    \/ AnnounceFails
    \/ Abort
    \/ Skip
    \/ SkipReportFails
    \/ AppendToBatch
    \/ Flush
    \/ FlushFails
    \/ FlushReportFails
    \/ KeepBatch
    \/ Finish
    \/ FinishFails

\* No fairness: the tool is awaited without timeout, and open() and print()
\* may block, so the code guarantees no step.
Spec == Init /\ [][Next]_vars

\* ------------------------------------------------------- claim vocabulary
\* An invocation whose result passes `if not calldata`.
IsSuccess(r) == r.calldata # Raised /\ Truthy(r.calldata)

\* An invocation whose generation failed: a non-zero exit, an empty output,
\* or an exception of the invocation.
IsFailure(r) == ~IsSuccess(r)

\* The invocations that produced call data, in input order.
Successes == SelectSeq(results, IsSuccess)

SuccessTokens == [k \in 1..Len(Successes) |-> Successes[k].token_id]

SuccessPairs ==
    [k \in 1..Len(Successes) |-> << Successes[k].token_id, Successes[k].calldata >>]

Ceil(n, d) == (n + d - 1) \div d

\* The consecutive chunks of d elements of s (the last one may be shorter).
Chunks(s, d) ==
    [k \in 1..Ceil(Len(s), d) |->
        SubSeq(s, (k - 1) * d + 1, IF k * d < Len(s) THEN k * d ELSE Len(s))]

DigitValue(c) == CHOOSE d \in 0..9 : DigitChars[d + 1] = c

RECURSIVE ParseInt(_)
ParseInt(s) == IF s = << >> THEN 0
               ELSE 10 * ParseInt(SubSeq(s, 1, Len(s) - 1)) + DigitValue(s[Len(s)])

RECURSIVE Split(_, _)
\* s.split(sep) for a one-character separator.
Split(s, sep) ==
    IF \A k \in 1..Len(s) : s[k] # sep THEN << s >>
    ELSE LET k == CHOOSE k \in 1..Len(s) :
                     s[k] = sep /\ \A j \in 1..(k - 1) : s[j] # sep
         IN << SubSeq(s, 1, k - 1) >> \o Split(SubSeq(s, k + 1, Len(s)), sep)

\* The token IDs read back from a file name, in order.
NameTokens(name) ==
    LET body == SubSeq(name, Len(NamePrefix) + 1, Len(name) - Len(NameSuffix))
        parts == Split(body, Underscore[1])
    IN [k \in 1..Len(parts) |-> ParseInt(parts[k])]

\* Per file opened for writing, in order: the token IDs of its name.  A file
\* whose write raised is included, with the document given to json.dump.
FileTokens == [k \in 1..Len(files) |-> NameTokens(files[k].name)]

FileSize(k) == Len(files[k].content.transactions)

Occurrences(s, x) == Cardinality({ k \in 1..Len(s) : s[k] = x })

RECURSIVE Flatten(_)
Flatten(ss) == IF ss = << >> THEN << >> ELSE Head(ss) \o Flatten(Tail(ss))

Distinct(s) == \A a, b \in 1..Len(s) : a # b => s[a] # s[b]

\* Token IDs paired with call data: of the in-progress batch, of a file.
BatchPairs ==
    [k \in 1..Len(batch_token_ids) |-> << batch_token_ids[k], batch_calldatas[k] >>]

FilePairs(f) ==
    LET ids == NameTokens(files[f].name)
    IN [k \in 1..FileSize(f) |->
           << ids[k], files[f].content.transactions[k].data >>]

TypeOK ==
    /\ pc \in { "start", "loop", "batch", "done", "aborted" }
    /\ i \in 0..Len(token_ids)
    /\ file_count \in 0..Len(token_ids)
    /\ Len(batch_token_ids) \in 0..BatchSize
    /\ Len(files) \in { file_count, file_count - 1 }

\* ----------------------------------------------------------------- claims
\* C1: when main() finishes, the number of files written is
\* ceiling(S / 5), S being the number of token IDs whose call data was
\* generated.
C1_FileCountIsCeiling ==
    pc = "done" =>
        /\ Len(files) = Ceil(Len(Successes), BatchSize)
        /\ file_count = Ceil(Len(Successes), BatchSize)

\* C2: when the run ends the in-progress batch is empty and every token ID
\* whose call data was generated has been written to some file.
C2_RunEndsFlushed ==
    pc = "done" =>
        /\ batch_token_ids = << >>
        /\ batch_calldatas = << >>
        /\ LET written == Flatten(FileTokens)
           IN \A k \in 1..Len(Successes) :
                  Occurrences(written, Successes[k].token_id) > 0

\* C3: every file holds between 1 and 5 transactions, and every file but
\* the last one written holds exactly 5.  A file whose write raised is
\* counted with the transactions of the document given to json.dump.
C3_FileSizes ==
    \A k \in 1..Len(files) :
        /\ FileSize(k) \in 1..BatchSize
        /\ k < Len(files) => FileSize(k) = BatchSize

\* The example of the specification: six token IDs, all generated, give a
\* file of 5 transactions and a file of 1.
C3_Witness ==
    /\ pc = "done"
    /\ token_ids = SubSeq(SourceTokenIds, 1, 6)
    /\ Len(Successes) = 6
    /\ Len(files) = 2
    /\ FileSize(1) = 5
    /\ FileSize(2) = 1

C4_FailedAbsent ==
    LET names == FileTokens
        written == Flatten(names)
        generated == SuccessTokens
        pairs == { SuccessPairs[k] : k \in 1..Len(Successes) }
    IN /\ \A k \in 1..Len(results) :
             Occurrences(written, results[k].token_id)
                 <= Occurrences(generated, results[k].token_id)
       /\ \A f \in 1..Len(files) :
             /\ FileSize(f) = Len(names[f])
             /\ \A t \in 1..FileSize(f) :
                   << names[f][t], files[f].content.transactions[t].data >> \in pairs

\* The step part of C4: the step on which a generation fails leaves the
\* batch, the file count and the files alone; it moves to the next element,
\* or ends the run with an exception, which it does whenever the invocation
\* raised.
C4_SkipStep ==
    (Len(results') = Len(results) + 1 /\ IsFailure(results'[Len(results')])) =>
        /\ UNCHANGED << batch_token_ids, batch_calldatas, file_count, files >>
        /\ \/ pc' = "loop" /\ i' = i + 1 /\ results'[Len(results')].calldata # Raised
           \/ pc' = "aborted" /\ i' = i

C5_BatchesAreChunks ==
    pc = "done" => FileTokens = Chunks(SuccessTokens, BatchSize)

\* C6: every token ID whose tool invocation exited with status zero is in
\* an output file, whatever the tool printed.
C6_ExitZeroIncluded ==
    pc = "done" =>
        LET written == Flatten(FileTokens)
        IN \A k \in 1..Len(results) :
               results[k].returncode = 0 =>
                   Occurrences(written, results[k].token_id) > 0

\* C7: in every file the envelope's chainId is "43114" and every
\* transaction has value "0" and the loan contract address as destination.
C7_FixedFields ==
    \A k \in 1..Len(files) :
        /\ files[k].content.chainId = "43114"
        /\ \A t \in 1..FileSize(k) :
              /\ files[k].content.transactions[t].value = "0"
              /\ files[k].content.transactions[t].to = pharaoh_loan

\* Two files whose transactions carry different call data.
C7_Witness ==
    /\ Len(files) >= 2
    /\ FileSize(1) = BatchSize
    /\ files[1].content.transactions[1].data # files[1].content.transactions[2].data
    /\ files[1].content.transactions[1].data # files[2].content.transactions[1].data

\* The invocations made so far are one each, in input order, for the
\* elements whose iteration has called the tool.
C8_OnePerElement ==
    /\ pc = "start" => Len(results) = 0
    /\ pc \in { "loop", "done" } => Len(results) = i
    /\ pc = "batch" => Len(results) = i + 1
    /\ pc = "aborted" => Len(results) \in { i, i + 1 }
    /\ Len(results) <= Len(token_ids)
    /\ \A k \in 1..Len(results) : results[k].token_id = token_ids[k]

\* C8 as stated: the tool is invoked exactly once for each element of the
\* input, in input order, and the run ends after the last element has been
\* processed.
C8_EveryElementInvoked ==
    /\ C8_OnePerElement
    /\ pc \in { "done", "aborted" } =>
          /\ pc = "done"
          /\ Len(results) = Len(token_ids)

\* The state part of C8 as amended: a run that returns has made one
\* invocation per element; a run ended by an exception has made one per
\* element whose iteration reached the call, and an invocation that raised
\* is the last one made.
C8_OnePerElementReached ==
    /\ C8_OnePerElement
    /\ pc = "done" => (i = Len(token_ids) /\ Len(results) = Len(token_ids))
    /\ \A k \in 1..Len(results) :
          results[k].calldata = Raised => (pc = "aborted" /\ k = Len(results))

\* The steps main() and the tool have left at most: three per element not
\* yet consumed.
C8_StepsLeft ==
    CASE pc = "start" -> 3 * Len(token_ids) + 3
      [] pc = "loop" -> 3 * (Len(token_ids) - i) + 2
      [] pc = "batch" -> 3 * (Len(token_ids) - i) + 1
      [] OTHER -> 0

\* C8, amended: the tool is invoked at most once per element, in input
\* order, never a second time after a failure; a run that returns has
\* invoked it exactly once per element, after the last of which it ends;
\* a run ended earlier by an uncaught exception (of an invocation, of a
\* print(), of the file write) has invoked it for the elements before that
\* point only; and every step brings the run nearer to its end, the loop
\* making one iteration per element.
C8_OnceEachAndBounded ==
    /\ []C8_OnePerElementReached
    /\ [][C8_StepsLeft' < C8_StepsLeft]_vars

\* A run ended by an exception after a skipped and a batched element.
C8_Witness ==
    /\ pc = "aborted"
    /\ Len(results) = 3
    /\ Len(token_ids) > 3
    /\ results[1].returncode = 1
    /\ IsSuccess(results[2])
    /\ results[3].calldata = Raised

\* C9: when the input token IDs are pairwise distinct, no two batches are
\* written to the same file name, and the file count equals the number of
\* distinct files (after an exception of the file write it may be one
\* more: the file that could not be opened).
C9_NoOverwrite ==
    Distinct(token_ids) =>
        LET names == { files[k].name : k \in 1..Len(files) }
        IN /\ \A a, b \in 1..Len(files) : a # b => files[a].name # files[b].name
           /\ pc # "aborted" => Cardinality(names) = file_count
           /\ file_count \in { Cardinality(names), Cardinality(names) + 1 }

\* Three files written from pairwise distinct token IDs, two of them with
\* five token IDs each.
C9_Witness ==
    /\ pc = "done"
    /\ Distinct(token_ids)
    /\ file_count = 3
    /\ Len(files) = 3
    /\ FileSize(1) = BatchSize
    /\ FileSize(2) = BatchSize

\* C10: the two in-progress lists have the same length, at most 5 and at
\* most 4 at the start of an iteration, and the k-th transaction of a file
\* carries the call data generated for the k-th token ID of its name: the
\* files hold, five by five and in order, the (token ID, call data) pairs of
\* the successful generations, and the in-progress batch holds the latest
\* of them; until an exception ends the run, files and batch together hold
\* each pair once.
C10_Paired ==
    LET n == Len(Successes)
        b == Len(batch_token_ids)
    IN /\ b = Len(batch_calldatas)
       /\ b \in 0..BatchSize
       /\ pc \in { "start", "loop" } => b \in 0..(BatchSize - 1)
       /\ b <= n
       /\ BatchPairs = SubSeq(SuccessPairs, n - b + 1, n)
       /\ \A f \in 1..Len(files) :
             /\ FileSize(f) = Len(NameTokens(files[f].name))
             /\ FilePairs(f) = SubSeq(SuccessPairs, (f - 1) * BatchSize + 1,
                                      (f - 1) * BatchSize + FileSize(f))
       /\ pc # "aborted" =>
             Flatten([f \in 1..Len(files) |-> FilePairs(f)]) \o BatchPairs
                 = SuccessPairs

\* A first file was written from a batch with a skipped element inside, and
\* a second batch is in progress.
C10_Witness ==
    /\ pc = "batch"
    /\ Distinct(token_ids)
    /\ Len(files) = 1
    /\ FileSize(1) = BatchSize
    /\ Len(batch_token_ids) >= 2
    /\ \E k \in 2..BatchSize : IsFailure(results[k])
====
